---------------------------- MODULE Spec2Model ----------------------------
(***************************************************************************)
(* The retrieval core of understand.me: the persistent corpus service      *)
(* (services/ai/rag.ts, Supabase + pgvector) and its in-memory variant     *)
(* (module-level chunks / embeddings arrays).                              *)
(*                                                                         *)
(* Numbers.  A JavaScript number is modelled exactly as a pair <<n, d>>:   *)
(* the rational n/d in lowest terms with d > 0, or NaN == <<0, 0>>.  The   *)
(* embedding vectors of the model have integer magnitudes, so Math.sqrt,   *)
(* the division of cosineSimilarity, `1 - distance` and the comparator     *)
(* `b.score - a.score` are all computed without rounding.                  *)
(***************************************************************************)
EXTENDS Integers, Sequences, FiniteSets

(***************************************************************************)
(* Bounds of the model.                                                    *)
(***************************************************************************)
\* Records the store ever assigns an id to (caps the id counter).
MaxId == 3
\* Largest topK a caller passes.
MaxTopK == 2
\* Tokens per chunk.  loadCorpus passes 500 (rag.ts:21); the model scales the
\* limit down so that texts of a few words already split into several chunks.
MaxTokens == 2

(***************************************************************************)
(* JavaScript values.                                                      *)
(***************************************************************************)
\* An argument that was not passed.
Undefined == "<undefined>"

\* A test that only undefined fails.
TruthyUnlessUndefined(s) == s # Undefined

\* if (source) / source || 'unknown': undefined and '' are falsy.
Truthy(s) == s # Undefined /\ s # ""

NaN == <<0, 0>>
IsNaN(x) == x[2] = 0

Abs(n) == IF n < 0 THEN -n ELSE n

RECURSIVE GCD(_, _)
GCD(a, b) == IF b = 0 THEN a ELSE GCD(b, a % b)

\* The number n / d (JavaScript's `/` on two integers); 0 / 0 is NaN.  A non-zero
\* dot product implies two non-zero magnitudes, so x / 0 with x # 0 does not arise.
Div(n, d) ==
    IF d = 0 THEN NaN
    ELSE LET s == IF d < 0 THEN -1 ELSE 1
             g == GCD(Abs(n), Abs(d))
         IN  <<(s * n) \div g, Abs(d) \div g>>

Num(k) == <<k, 1>>

\* x - y; NaN when either operand is NaN.
Minus(x, y) ==
    IF IsNaN(x) \/ IsNaN(y) THEN NaN
    ELSE Div(x[1] * y[2] - y[1] * x[2], x[2] * y[2])

\* x < y and x >= y as JavaScript evaluates them: false when an operand is NaN.
Less(x, y) == ~IsNaN(x) /\ ~IsNaN(y) /\ x[1] * y[2] < y[1] * x[2]
AtLeast(x, y) == ~IsNaN(x) /\ ~IsNaN(y) /\ x[1] * y[2] >= y[1] * x[2]

\* Math.sqrt on the sums of squares the model produces (all perfect squares).
Sqrt(n) == CHOOSE r \in 0..n : r * r <= n /\ n < (r + 1) * (r + 1)

RECURSIVE SumSquares(_)
SumSquares(v) == IF v = <<>> THEN 0 ELSE SumSquares(Tail(v)) + Head(v) * Head(v)

\* a.reduce((sum, val) => sum + val * val, 0) under Math.sqrt.
Magnitude(v) == Sqrt(SumSquares(v))


(***************************************************************************)
(* Texts, the chunker and the embedding provider.                          *)
(* A text or a chunk is the sequence of its whitespace-delimited words.    *)
(***************************************************************************)
Front(s) == SubSeq(s, 1, Len(s) - 1)
Last(s) == s[Len(s)]

\* A splitter that leaves out a last chunk of fewer than maxTokens words.
splitOnTokenDropsRemainder(text, maxTokens) ==
    [k \in 1..(Len(text) \div maxTokens) |->
        SubSeq(text, (k - 1) * maxTokens + 1, k * maxTokens)]

RECURSIVE splitOnToken(_, _)
\* Consecutive groups of at most maxTokens words; no chunk for an empty text.
splitOnToken(text, maxTokens) ==
    IF text = <<>> THEN <<>>
    ELSE IF Len(text) <= maxTokens THEN <<text>>
    ELSE <<SubSeq(text, 1, maxTokens)>>
             \o splitOnToken(SubSeq(text, maxTokens + 1, Len(text)), maxTokens)

RECURSIVE flatMapSplit(_)
\* texts.flatMap((t) => splitOnToken(t, 500))
flatMapSplit(texts) ==
    IF texts = <<>> THEN <<>>
    ELSE splitOnToken(Head(texts), MaxTokens) \o flatMapSplit(Tail(texts))

\* chunk.split(' ').length
tokenCount(chunk) == Len(chunk)

\* The vector the embedding provider returns for a text when the call succeeds.
\* The provider is a deterministic function of the text; the table gives parallel
\* vectors (fox, dog: equal cosine to every query), a vector whose cosine to fox is
\* 1/17 < 0.1 (owl), an opposite vector (eel) and an all-zero vector (nil).
embedContent(text) ==
    CASE Head(text) = "fox" -> <<1, 0, 0>>
      [] Head(text) = "dog" -> <<2, 0, 0>>
      [] Head(text) = "cat" -> <<3, 4, 0>>
      [] Head(text) = "owl" -> <<1, 12, 12>>
      [] Head(text) = "eel" -> <<-1, 0, 0>>
      [] OTHER              -> <<0, 0, 0>>

(***************************************************************************)
(* Cosine similarity of the persistent service.                            *)
(***************************************************************************)
RECURSIVE dotProduct(_, _)
\* a.reduce((sum, val, i) => sum + val * b[i], 0) for Len(a) = Len(b).
dotProduct(a, b) ==
    IF a = <<>> THEN 0 ELSE Head(a) * Head(b) + dotProduct(Tail(a), Tail(b))

cosineSimilarity(a, b) ==
    IF Len(a) # Len(b) THEN Num(0)
    ELSE IF Magnitude(a) = 0 \/ Magnitude(b) = 0 THEN Num(0)
    ELSE Div(dotProduct(a, b), Magnitude(a) * Magnitude(b))

(***************************************************************************)
(* Array.prototype.sort((a, b) => b.score - a.score) and slice(0, topK).   *)
(***************************************************************************)
compareFn(a, b) == Minus(b.score, a.score)

\* The comparator's verdict as sort reads it: a NaN result counts as +0.
Order(a, b) ==
    LET v == compareFn(a, b)
    IN  IF IsNaN(v) THEN 0 ELSE IF v[1] < 0 THEN -1 ELSE IF v[1] > 0 THEN 1 ELSE 0

RECURSIVE InsertSorted(_, _)
InsertSorted(s, x) ==
    IF s = <<>> THEN <<x>>
    ELSE IF Order(Last(s), x) > 0
         THEN Append(InsertSorted(Front(s), x), Last(s))
         ELSE Append(s, x)

RECURSIVE StableSort(_)
\* The sort of a consistent comparator: ascending in Order, equal elements in
\* their original order (Array.prototype.sort is stable).
StableSort(s) ==
    IF s = <<>> THEN <<>> ELSE InsertSorted(StableSort(Front(s)), Last(s))

\* ECMAScript's consistent comparator: "compares equal" is transitive on the
\* elements (the other conditions hold of every difference of two numbers).
ConsistentComparator(s) ==
    \A i, j, k \in 1..Len(s) :
        (Order(s[i], s[j]) = 0 /\ Order(s[j], s[k]) = 0) => Order(s[i], s[k]) = 0

AllOrders(s) ==
    LET n == Len(s)
        P == {p \in [1..n -> 1..n] : \A i, j \in 1..n : i # j => p[i] # p[j]}
    IN  {[i \in 1..n |-> s[p[i]]] : p \in P}

\* The arrays sort may leave: the stable sort when the comparator is consistent;
\* otherwise the order is implementation-defined and any permutation is allowed.
ArraySort(s) ==
    IF ConsistentComparator(s) THEN {StableSort(s)} ELSE AllOrders(s)

\* s.slice(0, topK) for topK >= 0.
Slice(s, topK) == SubSeq(s, 1, IF topK < Len(s) THEN topK ELSE Len(s))

(***************************************************************************)
(* The document_embeddings table behind the Supabase client.               *)
(* Rows are kept in insertion order and a select returns them in it.       *)
(***************************************************************************)
\* insert(rows): the table assigns the ids firstId, firstId + 1, ...
TableInsert(table, batch, firstId) ==
    table \o [i \in 1..Len(batch) |->
                [id |-> firstId + i - 1,
                 content |-> batch[i].content,
                 embedding |-> batch[i].embedding,
                 source |-> batch[i].source,
                 chunk_index |-> batch[i].chunk_index,
                 metadata |-> batch[i].metadata]]

\* A query builder's row filter: Undefined (none) or eq('source', s).
Matches(row, filter) == filter = Undefined \/ row.source = filter

TableSelect(table, filter) == SelectSeq(table, LAMBDA r : Matches(r, filter))

\* An index that ranks by the inner product.
IndexSimilarityInnerProduct(a, b) ==
    IF Len(a) # Len(b) THEN Num(0) ELSE Num(dotProduct(a, b))

\* The similarity the index ranks by (spec 4.4): cosine, 0 for a zero magnitude
\* or for vectors of different lengths.
IndexSimilarity(a, b) ==
    IF Len(a) # Len(b) \/ Magnitude(a) = 0 \/ Magnitude(b) = 0 THEN Num(0)
    ELSE Div(dotProduct(a, b), Magnitude(a) * Magnitude(b))

RECURSIVE InsertByDistance(_, _)
InsertByDistance(s, x) ==
    IF s = <<>> THEN <<x>>
    ELSE IF Less(x.distance, Last(s).distance)
         THEN Append(InsertByDistance(Front(s), x), Last(s))
         ELSE Append(s, x)

RECURSIVE OrderByDistance(_)
OrderByDistance(s) ==
    IF s = <<>> THEN <<>> ELSE InsertByDistance(OrderByDistance(Front(s)), Last(s))

\* rpc('match_documents', {query_embedding, match_threshold, match_count}) on a
\* builder [filter, limit]: the rows matching the filter whose similarity is at least
\* match_threshold, nearest first, at most match_count of them, each with its
\* distance = 1 - similarity.
match_documents(rows_, builder, query_embedding, match_threshold, match_count) ==
    LET rows == TableSelect(rows_, builder.filter)
        near == SelectSeq(rows, LAMBDA r :
                    AtLeast(IndexSimilarity(query_embedding, r.embedding),
                            match_threshold))
        dist == [i \in 1..Len(near) |->
                    [content |-> near[i].content,
                     distance |-> Minus(Num(1), IndexSimilarity(query_embedding,
                                                                 near[i].embedding)),
                     metadata |-> near[i].metadata]]
    IN  Slice(Slice(OrderByDistance(dist), match_count), builder.limit)

(***************************************************************************)
(* State.                                                                  *)
(***************************************************************************)
VARIABLES
    backend,     \* which of the two service modules this run is about
    table,       \* persistent: the rows of document_embeddings
    nextId,      \* persistent: the id the table assigns next
    chunks,      \* in-memory: let chunks: string[]
    embeddings,  \* in-memory: let embeddings: number[][]
    call,        \* the last completed call: its arguments and what the
                 \* embedding provider and the store answered during it;
                 \* in the step-by-step specifications, the running calls
    result,      \* how that call ended: returned value or raised error
    pre,         \* the table as that call found it
    apiKey,      \* process.env's embedding credential: "key", or "" when unset
    seen         \* the last getCorpusStats call, how its select ended and its
                 \* output, while no loadCorpus, clearCorpus or updateEmbedding
                 \* call followed it

vars ==
    <<backend, table, nextId, chunks, embeddings, call, result, pre, apiKey,
      seen>>

Null == [null |-> TRUE]

NoCall ==
    [op |-> "none", texts |-> <<>>, source |-> Undefined, query |-> <<>>,
     topK |-> 0, embed |-> <<>>, rpc |-> "none", fetch |-> "none",
     insert |-> "none", id |-> 0, content |-> <<>>]

Returned(value, path) ==
    [status |-> "returned", error |-> "none", value |-> value, path |-> path]

Threw(error) ==
    [status |-> "threw", error |-> error, value |-> <<>>, path |-> "none"]

(***************************************************************************)
(* Inputs the callers pass.                                                *)
(***************************************************************************)
Sources == {Undefined, "a"}

TextLists ==
    { <<>>,
      << <<"fox">> >>,
      << <<"dog", "cat", "owl">>, <<"fox">> >>,
      << <<"nil">>, <<>>, <<"eel">> >> }

\* The in-memory variant assigns no ids, so it is also given a longer corpus.
MemTextLists ==
    TextLists \cup { << <<"nil">>, <<"fox">>, <<"dog">>, <<"owl">> >> }

\* "nil" is a text the provider embeds as the all-zero vector.
Queries == { <<"fox">>, <<"cat">>, <<"nil">> }

NoResult ==
    [status |-> "none", error |-> "none", value |-> <<>>, path |-> "none"]

\* No getCorpusStats output is remembered.
NoStats ==
    [source |-> Undefined, fetch |-> "none", value |-> <<>>, known |-> FALSE]

\* process.env.GOOGLE_GENAI_API_KEY || '' and process.env.VOYAGE_API_KEY || ''.
ApiKeys == {"key", ""}

Init ==
    /\ backend \in {"persistent", "memory"}
    /\ apiKey \in ApiKeys
    /\ seen = NoStats
    /\ table = <<>>
    /\ nextId = 1
    /\ chunks = <<>>
    /\ embeddings = <<>>
    /\ call = NoCall
    /\ result = NoResult
    /\ pre = <<>>

\* No call is outstanding: the caller is free to make one.
Idle == call.op = "none"

(***************************************************************************)
(* loadCorpus of the persistent service.                                   *)
(***************************************************************************)
\* embedChunk with the failed chunk kept as a row without an embedding.
embedChunkKeepFailed(chunk, index, source, ok) ==
    [content |-> chunk,
     embedding |-> IF ok THEN embedContent(chunk) ELSE <<>>,
     source |-> IF Truthy(source) THEN source ELSE "unknown",
     chunk_index |-> index,
     metadata |-> [token_count |-> tokenCount(chunk),
                   created_by |-> "rag_service",
                   updated_by |-> Undefined]]

\* One embeddingPromises callback: the insert row of chunk `index` when its
\* embedContent call succeeded (ok), null when it threw.
embedChunk(chunk, index, source, ok) ==
    IF ok
    THEN [content |-> chunk,
          embedding |-> embedContent(chunk),
          source |-> IF Truthy(source) THEN source ELSE "unknown",
          chunk_index |-> index,
          metadata |-> [token_count |-> tokenCount(chunk),
                        created_by |-> "rag_service",
                        updated_by |-> Undefined]]
    ELSE Null

\* await Promise.all(embeddingPromises): one result per chunk, in chunk order.
embeddingResults(cs, source, ok) ==
    [i \in 1..Len(cs) |-> embedChunk(cs[i], i - 1, source, ok[i])]

\* validEmbeddings that numbers the surviving rows anew.
validEmbeddingsReindexed(results) ==
    LET v == SelectSeq(results, LAMBDA r : r # Null)
    IN  [j \in 1..Len(v) |-> [v[j] EXCEPT !.chunk_index = j - 1]]

\* validEmbeddings that gives up on the batch as soon as one chunk failed.
validEmbeddingsAllOrNothing(results) ==
    IF \E i \in 1..Len(results) : results[i] = Null THEN <<>> ELSE results

\* embeddingResults.filter(result => result !== null)
validEmbeddings(results) == SelectSeq(results, LAMBDA r : r # Null)

\* insertOutcome that does not look at the insert's error.
insertOutcomeErrorIgnored(ins) ==
    CASE ins = "ok"     -> Returned(<<>>, "none")
      [] ins = "error"  -> Returned(<<>>, "none")
      [] ins = "throws" -> Threw("Exception")

\* What loadCorpus does with the answer of insert(validEmbeddings).
insertOutcome(ins) ==
    CASE ins = "ok"     -> Returned(<<>>, "none")
      [] ins = "error"  -> Threw("StoreError")
      [] ins = "throws" -> Threw("Exception")

loadCorpus(texts, source, ok, ins) ==
    LET cs == flatMapSplit(texts)
        valid == validEmbeddings(embeddingResults(cs, source, ok))
        res == IF valid = <<>> THEN Threw("NoValidEmbeddings")
               ELSE insertOutcome(ins)
    IN  /\ nextId + Len(cs) - 1 <= MaxId
        /\ (valid = <<>>) = (ins = "none")
        /\ call' = [NoCall EXCEPT !.op = "loadCorpus", !.texts = texts,
                                  !.source = source, !.embed = ok,
                                  !.insert = ins]
        /\ pre' = table
        /\ result' = res
        /\ IF ins = "ok"
           THEN /\ table' = TableInsert(table, valid, nextId)
                /\ nextId' = nextId + Len(valid)
           ELSE UNCHANGED <<table, nextId>>
        /\ seen' = NoStats
        /\ UNCHANGED <<backend, chunks, embeddings, apiKey>>

(***************************************************************************)
(* findSimilar of the persistent service.                                  *)
(***************************************************************************)
\* A builder that never gets the eq('source', ...) restriction.
sourceFilterIgnored(source) == Undefined

\* if (source) { query = query.eq('source', source) }
sourceFilter(source) == IF Truthy(source) THEN source ELSE Undefined

\* A match_threshold that no cosine reaches.
matchThresholdAboveOne == Div(11, 10)

\* match_threshold: 0.1
matchThreshold == Div(1, 10)

\* toResults that hands the distance on as the score.
toResultsDistanceAsScore(data) ==
    [i \in 1..Len(data) |->
        [chunk |-> data[i].content,
         score |-> data[i].distance,
         metadata |-> data[i].metadata]]

\* data.map(item => ({chunk: item.content, score: 1 - item.distance, ...}))
toResults(data) ==
    [i \in 1..Len(data) |->
        [chunk |-> data[i].content,
         score |-> Minus(Num(1), data[i].distance),
         metadata |-> data[i].metadata]]

\* data.map(doc => ({chunk: doc.content, score: cosineSimilarity(...), ...}))
similarities(data, queryEmbedding) ==
    [i \in 1..Len(data) |->
        [chunk |-> data[i].content,
         score |-> cosineSimilarity(queryEmbedding, data[i].embedding),
         metadata |-> data[i].metadata]]

\* topRanked with the indexed path's floor of 0.1 applied before the cut.
topRankedAboveFloor(scored, topK) ==
    {Slice(SelectSeq(s, LAMBDA x : AtLeast(x.score, Div(1, 10))), topK) :
        s \in ArraySort(scored)}

\* similarities.sort((a, b) => b.score - a.score).slice(0, topK): the arrays
\* this may evaluate to.
topRanked(scored, topK) == {Slice(s, topK) : s \in ArraySort(scored)}

\* A catch that rethrows.
caughtRethrown(error) == Threw(error)

\* catch (error) { return []; } of findSimilar and of fallbackSimilaritySearch.
caught(error) == Returned(<<>>, "none")

\* The values fallbackSimilaritySearch may return, given how the select ends:
\* "data", "error" (an {error} answer) or "throws".
fallbackSimilaritySearch(rows, queryEmbedding, topK, source, fetch) ==
    LET data == TableSelect(rows, sourceFilter(source))
    IN  CASE fetch = "throws" -> {caught("Exception")}
          [] fetch = "error" -> {Returned(<<>>, "fallback")}
          [] fetch = "data" ->
                {Returned(v, "fallback") :
                    v \in topRanked(similarities(data, queryEmbedding), topK)}

\* findSimilarOutcomes that turns to the fallback when the index finds no row.
findSimilarOutcomesFallbackOnEmpty(rows, query, topK, source, emb, rpc, fetch) ==
    LET queryEmbedding == embedContent(query)
        builder == [filter |-> sourceFilter(source), limit |-> topK]
        data == match_documents(rows, builder, queryEmbedding, matchThreshold,
                                topK)
    IN  IF ~emb THEN {caught("Exception")}
        ELSE CASE rpc = "throws" -> {caught("Exception")}
               [] rpc = "error" ->
                    fallbackSimilaritySearch(rows, queryEmbedding, topK, source,
                                             fetch)
               [] rpc = "data" ->
                    IF Len(data) = 0
                    THEN fallbackSimilaritySearch(rows, queryEmbedding, topK,
                                                  source, "data")
                    ELSE {Returned(toResults(data), "indexed")}

\* The values findSimilar may return.  emb: the query's embedContent call
\* succeeded; rpc: how the match_documents call ends ("data", "error" or
\* "throws"); fetch: how the fallback's select ends.
findSimilarOutcomes(rows, query, topK, source, emb, rpc, fetch) ==
    LET queryEmbedding == embedContent(query)
        builder == [filter |-> sourceFilter(source), limit |-> topK]
        data == match_documents(rows, builder, queryEmbedding, matchThreshold,
                                topK)
    IN  IF ~emb THEN {caught("Exception")}
        ELSE CASE rpc = "throws" -> {caught("Exception")}
               [] rpc = "error" ->
                    fallbackSimilaritySearch(rows, queryEmbedding, topK, source,
                                             fetch)
               [] rpc = "data" ->
                    {IF Len(data) = 0 THEN Returned(<<>>, "indexed")
                     ELSE Returned(toResults(data), "indexed")}

findSimilar(query, topK, source, emb, rpc, fetch) ==
    /\ emb = (rpc # "none")
    /\ (rpc = "error") = (fetch # "none")
    /\ call' = [NoCall EXCEPT !.op = "findSimilar", !.query = query,
                              !.topK = topK, !.source = source,
                              !.embed = <<emb>>, !.rpc = rpc, !.fetch = fetch]
    /\ pre' = table
    /\ result' \in findSimilarOutcomes(table, query, topK, source, emb, rpc,
                                        fetch)
    /\ UNCHANGED <<backend, table, nextId, chunks, embeddings, apiKey, seen>>

(***************************************************************************)
(* The in-memory variant.                                                  *)
(***************************************************************************)
\* chunks = texts.flatMap(...); embeddings = the batch's vectors when the one
\* embed request succeeds (ok), [] when it throws.  The call always returns.
memLoadCorpus(texts, ok) ==
    LET cs == flatMapSplit(texts)
    IN  /\ chunks' = cs
        /\ embeddings' = IF ok THEN [i \in 1..Len(cs) |-> embedContent(cs[i])]
                         ELSE <<>>
        /\ call' = [NoCall EXCEPT !.op = "loadCorpus", !.texts = texts,
                                  !.embed = <<ok>>]
        /\ result' = Returned(<<>>, "none")
        /\ UNCHANGED <<backend, table, nextId, pre, apiKey, seen>>

RECURSIVE memDot(_, _, _)
\* a.reduce((sum, val, i) => sum + val * b[i], 0) from index i on: b[i] is
\* undefined past the end of b, and val * undefined is NaN.
memDot(a, b, i) ==
    IF i > Len(a) THEN Num(0)
    ELSE IF i > Len(b) THEN NaN
    ELSE LET rest == memDot(a, b, i + 1)
         IN  IF IsNaN(rest) THEN NaN ELSE Num(a[i] * b[i] + rest[1])

\* cosineSimilarity of the in-memory variant: no guard before the division.
memCosineSimilarity(a, b) ==
    LET dot == memDot(a, b, 1)
    IN  IF IsNaN(dot) THEN NaN ELSE Div(dot[1], Magnitude(a) * Magnitude(b))

\* chunks.map((c, i) => ({chunk: c, score: cosineSimilarity(qEmb, embeddings[i])}))
memScored(cs, embs, qEmb) ==
    [i \in 1..Len(cs) |->
        [chunk |-> cs[i], score |-> memCosineSimilarity(qEmb, embs[i])]]

\* The values the in-memory findSimilar may return.  Reading embeddings[i] past
\* the end gives undefined, on which cosineSimilarity throws; the catch answers [].
memFindSimilarOutcomes(cs, embs, query, topK, emb) ==
    IF ~emb \/ Len(embs) < Len(cs) THEN {caught("Exception")}
    ELSE {Returned(v, "memory") :
            v \in topRanked(memScored(cs, embs, embedContent(query)), topK)}

memFindSimilar(query, topK, emb) ==
    /\ call' = [NoCall EXCEPT !.op = "findSimilar", !.query = query,
                              !.topK = topK, !.embed = <<emb>>]
    /\ result' \in memFindSimilarOutcomes(chunks, embeddings, query, topK, emb)
    /\ UNCHANGED <<backend, table, nextId, chunks, embeddings, pre, apiKey,
                   seen>>

(***************************************************************************)
(* clearCorpus of the persistent service.                                  *)
(***************************************************************************)
\* A delete that never gets the eq('source', ...) restriction.
deleteFilterEverything(source) == Undefined

\* if (source) query.eq('source', source) else query.neq('id', ''): the rows
\* the delete removes.
deleteFilter(source) == IF Truthy(source) THEN source ELSE Undefined

\* A delete that spares the first row its filter matches.
TableDeleteSparesOne(rows, filter) ==
    LET hit == {i \in 1..Len(rows) : Matches(rows[i], filter)}
    IN  IF hit = {} THEN rows
        ELSE LET first == CHOOSE i \in hit : \A j \in hit : i <= j
             IN  SubSeq(rows, 1, first)
                     \o SelectSeq(SubSeq(rows, first + 1, Len(rows)),
                                  LAMBDA r : ~Matches(r, filter))

\* delete() under a filter: the rows that remain.
TableDelete(rows, filter) == SelectSeq(rows, LAMBDA r : ~Matches(r, filter))

clearOutcome(del) ==
    CASE del = "ok"     -> Returned(<<>>, "none")
      [] del = "error"  -> Threw("StoreError")
      [] del = "throws" -> Threw("Exception")

clearCorpus(source, del) ==
    /\ call' = [NoCall EXCEPT !.op = "clearCorpus", !.source = source,
                              !.insert = del]
    /\ pre' = table
    /\ result' = clearOutcome(del)
    /\ table' = IF del = "ok" THEN TableDelete(table, deleteFilter(source))
                ELSE table
    /\ seen' = NoStats
    /\ UNCHANGED <<backend, nextId, chunks, embeddings, apiKey>>

(***************************************************************************)
(* getCorpusStats of the persistent service.                               *)
(***************************************************************************)
\* The letters of a word of the model's texts.
wordLength(w) == IF w = "wolf" THEN 4 ELSE 3

\* contentLength that counts tokens instead of characters.
contentLengthInTokens(content) == Len(content)

RECURSIVE contentLength(_)
\* item.content.length: the words' letters and the single spaces between them.
contentLength(content) ==
    IF content = <<>> THEN 0
    ELSE IF Len(content) = 1 THEN wordLength(Head(content))
    ELSE wordLength(Head(content)) + 1 + contentLength(Tail(content))

RECURSIVE sumContentLengths(_)
\* data.reduce((sum, item) => sum + item.content.length, 0)
sumContentLengths(data) ==
    IF data = <<>> THEN 0
    ELSE contentLength(Head(data).content) + sumContentLengths(Tail(data))

RECURSIVE distinctSources(_)
\* [...new Set(data.map(item => item.source))]: each source once, in the order
\* of its first row.
distinctSources(data) ==
    IF data = <<>> THEN <<>>
    ELSE LET rest == distinctSources(Front(data))
         IN  IF \E i \in 1..Len(rest) : rest[i] = Last(data).source THEN rest
             ELSE Append(rest, Last(data).source)

\* Zeroed statistics that still name a source.
zeroStatsWithSource ==
    [total_chunks |-> 0, sources |-> <<"unknown">>, avg_chunk_length |-> 0]

\* Math.round of a number x >= 0: the integer floor(x + 1/2).
MathRound(x) == (2 * x[1] + x[2]) \div (2 * x[2])

zeroStats == [total_chunks |-> 0, sources |-> <<>>, avg_chunk_length |-> 0]

\* The statistics of the selected rows.
corpusStats(data) ==
    IF Len(data) = 0 THEN zeroStats
    ELSE [total_chunks |-> Len(data),
          sources |-> distinctSources(data),
          avg_chunk_length |->
              MathRound(Div(sumContentLengths(data), Len(data)))]

\* getCorpusStatsOutcome whose catch rethrows the store's error.
getCorpusStatsOutcomeRethrown(rows, source, fetch) ==
    CASE fetch = "data" ->
            Returned(corpusStats(TableSelect(rows, sourceFilter(source))), "none")
      [] fetch = "null" -> Returned(zeroStats, "none")
      [] fetch = "error" -> Threw("StoreError")
      [] fetch = "throws" -> Threw("Exception")

\* What getCorpusStats returns, given how the select ends: "data", "null" (no
\* error and no data), "error" (an {error} answer, thrown and caught) or "throws".
getCorpusStatsOutcome(rows, source, fetch) ==
    CASE fetch = "data" ->
            Returned(corpusStats(TableSelect(rows, sourceFilter(source))), "none")
      [] fetch = "null" -> Returned(zeroStats, "none")
      [] fetch = "error" -> Returned(zeroStats, "none")
      [] fetch = "throws" -> Returned(zeroStats, "none")

getCorpusStats(source, fetch) ==
    /\ call' = [NoCall EXCEPT !.op = "getCorpusStats", !.source = source,
                              !.fetch = fetch]
    /\ pre' = table
    /\ result' = getCorpusStatsOutcome(table, source, fetch)
    /\ UNCHANGED <<backend, table, nextId, chunks, embeddings, apiKey, seen>>

(***************************************************************************)
(* updateEmbedding of the persistent service.                              *)
(***************************************************************************)
\* updateData that always carries the source argument.
updateDataAlwaysSource(content, source) ==
    [content |-> content,
     embedding |-> embedContent(content),
     metadata |-> [token_count |-> tokenCount(content),
                   created_by |-> Undefined,
                   updated_by |-> "rag_service"],
     source |-> IF Truthy(source) THEN source ELSE "unknown"]

\* The columns the update writes; source is Undefined when the key is left out
\* (if (source) { updateData.source = source }).
updateData(content, source) ==
    [content |-> content,
     embedding |-> embedContent(content),
     metadata |-> [token_count |-> tokenCount(content),
                   created_by |-> Undefined,
                   updated_by |-> "rag_service"],
     source |-> IF Truthy(source) THEN source ELSE Undefined]

\* update(data).eq('id', id): the rows afterwards.  A row keeps the columns the
\* data leaves out; an id that no row has changes nothing.
TableUpdate(rows, id, data) ==
    [i \in 1..Len(rows) |->
        IF rows[i].id = id
        THEN [rows[i] EXCEPT !.content = data.content,
                             !.embedding = data.embedding,
                             !.metadata = data.metadata,
                             !.source = IF data.source = Undefined THEN @
                                        ELSE data.source]
        ELSE rows[i]]

\* How updateEmbedding ends.  emb: the embedContent call succeeded; upd: how
\* the update ends ("ok": no error, also when no row has the id).
updateOutcome(rows, id, emb, upd) ==
    IF ~emb THEN Threw("Exception")
    ELSE CASE upd = "ok" -> Returned(<<>>, "none")
           [] upd = "error" -> Threw("StoreError")
           [] upd = "throws" -> Threw("Exception")

updateEmbedding(id, content, source, emb, upd) ==
    /\ emb = (upd # "none")
    /\ call' = [NoCall EXCEPT !.op = "updateEmbedding", !.id = id,
                              !.content = content, !.source = source,
                              !.embed = <<emb>>, !.insert = upd]
    /\ pre' = table
    /\ result' = updateOutcome(table, id, emb, upd)
    /\ table' = IF upd = "ok"
                THEN TableUpdate(table, id, updateData(content, source))
                ELSE table
    /\ seen' = NoStats
    /\ UNCHANGED <<backend, nextId, chunks, embeddings, apiKey>>

(***************************************************************************)
(* The caller takes the outcome of its call; it may then make the next one. *)
(***************************************************************************)
Return ==
    /\ ~Idle
    /\ call' = NoCall
    /\ result' = NoResult
    /\ pre' = <<>>
    /\ seen' = IF call.op = "getCorpusStats"
               THEN [source |-> call.source, fetch |-> call.fetch,
                     value |-> result.value, known |-> TRUE]
               ELSE seen
    /\ UNCHANGED <<backend, table, nextId, chunks, embeddings, apiKey>>

(***************************************************************************)
(* The specification.                                                      *)
(***************************************************************************)
TopKs == 0..MaxTopK
StoreAnswers == {"ok", "error", "throws"}
QueryAnswers == {"data", "error", "throws"}

\* How an embedding call may end: without a credential every call fails.
EmbedAnswers == IF apiKey = "" THEN {FALSE} ELSE BOOLEAN

\* A caller of the persistent service makes one call.
CallLoadCorpus ==
    /\ Idle
    /\ backend = "persistent"
    /\ \E texts \in TextLists, source \in Sources,
          ins \in StoreAnswers \cup {"none"} :
          \E ok \in [1..Len(flatMapSplit(texts)) -> EmbedAnswers] :
             loadCorpus(texts, source, ok, ins)

CallFindSimilar ==
    /\ Idle
    /\ backend = "persistent"
    /\ \E query \in Queries, topK \in TopKs, source \in Sources,
          emb \in EmbedAnswers, rpc \in QueryAnswers \cup {"none"},
          fetch \in QueryAnswers \cup {"none"} :
          findSimilar(query, topK, source, emb, rpc, fetch)

CallClearCorpus ==
    /\ Idle
    /\ backend = "persistent"
    /\ \E source \in Sources, del \in StoreAnswers : clearCorpus(source, del)

\* A caller of the in-memory variant makes one call.
CallMemLoadCorpus ==
    /\ Idle
    /\ backend = "memory"
    /\ \E texts \in MemTextLists, ok \in EmbedAnswers : memLoadCorpus(texts, ok)

CallMemFindSimilar ==
    /\ Idle
    /\ backend = "memory"
    /\ \E query \in Queries, topK \in TopKs, emb \in EmbedAnswers :
          memFindSimilar(query, topK, emb)

Next ==
    \/ CallLoadCorpus
    \/ CallFindSimilar
    \/ CallClearCorpus
    \/ CallMemLoadCorpus
    \/ CallMemFindSimilar
    \/ Return

Spec == Init /\ [][Next]_vars

(***************************************************************************)
(* The persistent service with its maintenance operations: loadCorpus,     *)
(* clearCorpus, updateEmbedding, getCorpusStats and findSimilar over       *)
(* a table of at most MaxAdminId rows.                                     *)
(***************************************************************************)
\* Records the store assigns an id to in this specification.
MaxAdminId == 2

AdminTextLists ==
    { << <<"wolf">> >>,
      << <<"dog", "cat">>, <<"eel">> >> }

StatsAnswers == QueryAnswers \cup {"null"}
\* The ids a caller of updateEmbedding passes: those the table may have
\* assigned, and one it never assigns.
AdminIds == 1..(MaxAdminId + 1)
UpdateContents == { <<"cat">> }

CallAdminLoadCorpus ==
    /\ Idle
    /\ \E texts \in AdminTextLists, source \in Sources,
          ins \in StoreAnswers \cup {"none"} :
          /\ nextId + Len(flatMapSplit(texts)) - 1 <= MaxAdminId
          /\ \E ok \in [1..Len(flatMapSplit(texts)) -> EmbedAnswers] :
                loadCorpus(texts, source, ok, ins)

CallAdminClearCorpus ==
    /\ Idle
    /\ \E source \in Sources, del \in StoreAnswers : clearCorpus(source, del)

CallGetCorpusStats ==
    /\ Idle
    /\ \E source \in Sources, fetch \in StatsAnswers :
          getCorpusStats(source, fetch)

CallUpdateEmbedding ==
    /\ Idle
    /\ \E id \in AdminIds, content \in UpdateContents, source \in Sources,
          emb \in EmbedAnswers, upd \in StoreAnswers \cup {"none"} :
          updateEmbedding(id, content, source, emb, upd)

\* A findSimilar call whose embedding call succeeds and whose search is
\* answered, by the index or by the fallback.
CallAdminFindSimilar ==
    /\ Idle
    /\ \E query \in Queries, source \in Sources, rpc \in {"data", "error"} :
          findSimilar(query, MaxTopK, source, TRUE, rpc,
                      IF rpc = "error" THEN "data" ELSE "none")

AdminInit == Init /\ backend = "persistent" /\ apiKey = "key"

AdminNext ==
    \/ CallAdminLoadCorpus
    \/ CallAdminClearCorpus
    \/ CallGetCorpusStats
    \/ CallUpdateEmbedding
    \/ CallAdminFindSimilar
    \/ Return

AdminSpec == AdminInit /\ [][AdminNext]_vars

(***************************************************************************)
(* The two cosineSimilarity functions applied to a pair of vectors.        *)
(***************************************************************************)
\* Vectors of zero to three components: all-zero ones, parallel, opposite and
\* skew ones.
Vectors ==
    { <<>>, <<0>>, <<1>>, <<0, 0>>, <<1, 0>>, <<3, 4>>,
      <<0, 0, 0>>, <<1, 0, 0>>, <<-1, 0, 0>>, <<3, 4, 0>>, <<1, 12, 12>> }

\* The arguments a and b are chosen; nothing else is in use.
CosineInit ==
    /\ backend = "cosine"
    /\ apiKey = "key"
    /\ table = <<>>
    /\ nextId = 1
    /\ chunks = <<>>
    /\ embeddings = <<>>
    /\ pre = <<>>
    /\ seen = NoStats
    /\ result = NoResult
    /\ call \in {[op |-> "none", a |-> a, b |-> b] : a \in Vectors, b \in Vectors}

\* cosineSimilarity(a, b) of the persistent service.
ApplyCosineSimilarity ==
    /\ Idle
    /\ call' = [call EXCEPT !.op = "cosineSimilarity"]
    /\ result' = Returned(cosineSimilarity(call.a, call.b), "none")
    /\ UNCHANGED <<backend, table, nextId, chunks, embeddings, pre, apiKey, seen>>

\* cosineSimilarity(a, b) of the in-memory variant.
ApplyMemCosineSimilarity ==
    /\ Idle
    /\ call' = [call EXCEPT !.op = "memCosineSimilarity"]
    /\ result' = Returned(memCosineSimilarity(call.a, call.b), "none")
    /\ UNCHANGED <<backend, table, nextId, chunks, embeddings, pre, apiKey, seen>>

CosineNext == ApplyCosineSimilarity \/ ApplyMemCosineSimilarity

CosineSpec == CosineInit /\ [][CosineNext]_vars

(***************************************************************************)
(* splitOnToken applied to a text and a token limit.                       *)
(***************************************************************************)
\* Longest text, in words, and largest token limit given to the splitter.
MaxWords == 4
MaxSplitTokens == 3

Words == {"fox", "dog"}

\* The texts of at most MaxWords words.
SplitTexts == UNION {[1..n -> Words] : n \in 0..MaxWords}

\* The arguments text and maxTokens are chosen; nothing else is in use.
SplitInit ==
    /\ backend = "chunker"
    /\ apiKey = "key"
    /\ table = <<>>
    /\ nextId = 1
    /\ chunks = <<>>
    /\ embeddings = <<>>
    /\ pre = <<>>
    /\ seen = NoStats
    /\ result = NoResult
    /\ call \in {[op |-> "none", text |-> text, maxTokens |-> maxTokens] :
                    text \in SplitTexts, maxTokens \in 1..MaxSplitTokens}

ApplySplitOnToken ==
    /\ Idle
    /\ call' = [call EXCEPT !.op = "splitOnToken"]
    /\ result' = Returned(splitOnToken(call.text, call.maxTokens), "none")
    /\ UNCHANGED <<backend, table, nextId, chunks, embeddings, pre, apiKey, seen>>

SplitNext == ApplySplitOnToken

SplitSpec == SplitInit /\ [][SplitNext]_vars

(***************************************************************************)
(* loadCorpus of the persistent service, step by step: the embedContent    *)
(* calls of one loadCorpus call are all issued at once and settle in any   *)
(* order; Promise.all resumes the call when the last one has settled.      *)
(* Here call holds the running call: pc is its position, slots[i] is       *)
(* what the callback of chunk i returned, pending is the set of chunks     *)
(* whose embedContent call has not settled yet, order lists the chunks in  *)
(* the order in which their embedContent calls settled.                    *)
(***************************************************************************)
\* chunks.map(async (chunk, index) => ...): every callback runs up to its
\* await, so every embedContent call is issued before any settles.
loadCorpusStart(texts, source) ==
    LET cs == flatMapSplit(texts)
    IN  /\ nextId + Len(cs) - 1 <= MaxId
        /\ call' = [op |-> "loadCorpus", pc |-> "embedding", texts |-> texts,
                    source |-> source,
                    slots |-> [i \in 1..Len(cs) |-> Null],
                    pending |-> 1..Len(cs),
                    order |-> <<>>, insert |-> "none"]
        /\ pre' = table
        /\ UNCHANGED <<backend, table, nextId, chunks, embeddings, result,
                       apiKey, seen>>

\* The embedContent call of chunk i settles and its callback returns.
embedContentSettles(i, ok) ==
    /\ i \in call.pending
    /\ call' = [call EXCEPT
                  !.slots[i] = embedChunk(flatMapSplit(call.texts)[i], i - 1,
                                          call.source, ok),
                  !.pending = @ \ {i},
                  !.order = Append(@, i)]
    /\ UNCHANGED <<backend, table, nextId, chunks, embeddings, result, pre,
                   apiKey, seen>>

\* An await that hands the callbacks' results on in the order of settling.
awaitAllInSettlingOrder(slots, order) == [k \in 1..Len(order) |-> slots[order[k]]]

\* await Promise.all(embeddingPromises): the callbacks' results by position.
awaitAll(slots, order) == slots

\* Promise.all has resolved: filter, insert, return or throw.
loadCorpusInsert(ins) ==
    LET valid == validEmbeddings(awaitAll(call.slots, call.order))
    IN  /\ call.pending = {}
        /\ (valid = <<>>) = (ins = "none")
        /\ call' = [call EXCEPT !.pc = "done", !.insert = ins]
        /\ result' = IF valid = <<>> THEN Threw("NoValidEmbeddings")
                     ELSE insertOutcome(ins)
        /\ IF ins = "ok"
           THEN /\ table' = TableInsert(table, valid, nextId)
                /\ nextId' = nextId + Len(valid)
           ELSE UNCHANGED <<table, nextId>>
        /\ seen' = NoStats
        /\ UNCHANGED <<backend, chunks, embeddings, pre, apiKey>>

FanOutStart ==
    /\ Idle
    /\ \E texts \in TextLists, source \in Sources : loadCorpusStart(texts, source)

FanOutSettle ==
    /\ call.op = "loadCorpus"
    /\ call.pc = "embedding"
    /\ \E i \in call.pending, ok \in EmbedAnswers :
          embedContentSettles(i, ok)

FanOutInsert ==
    /\ call.op = "loadCorpus"
    /\ call.pc = "embedding"
    /\ \E ins \in StoreAnswers \cup {"none"} : loadCorpusInsert(ins)

FanOutReturn == call.op = "loadCorpus" /\ call.pc = "done" /\ Return

FanOutInit == Init /\ backend = "persistent" /\ apiKey = "key"

FanOutNext == FanOutStart \/ FanOutSettle \/ FanOutInsert \/ FanOutReturn

FanOutSpec == FanOutInit /\ [][FanOutNext]_vars

(***************************************************************************)
(* The in-memory variant, step by step.  Each exported function runs up to *)
(* its await, and resumes when the embed request has settled; between the  *)
(* two any other call may run, for the module takes no lock.  Here call    *)
(* holds the running calls: loads[p] is the p-th loadCorpus call (its      *)
(* position and the chunks it sent to the provider), find the findSimilar  *)
(* call and what it read when it resumed; chunksFrom and embeddingsFrom    *)
(* name the loadCorpus call that assigned each list, 0 for a call that was *)
(* over before these began.                                                *)
(***************************************************************************)
MaxLoads == 2

OverlapTextLists == { << <<"fox">> >>, << <<"cat">>, <<"dog">> >> }

NoLoad == [pc |-> "idle", input |-> <<>>]

NoFind ==
    [pc |-> "idle", query |-> <<>>, topK |-> 0, embed |-> FALSE,
     sawChunks |-> <<>>, sawEmbeddings |-> <<>>, sawChunksFrom |-> 0,
     sawEmbeddingsFrom |-> 0, during |-> {}]

\* response.data.map(item => item.embedding) for the input sent.
embedBatch(input) == [i \in 1..Len(input) |-> embedContent(input[i])]

\* The module after an earlier loadCorpus call ran alone and succeeded, or
\* before any call.
OverlapInit ==
    /\ backend = "memory"
    /\ apiKey = "key"
    /\ table = <<>>
    /\ nextId = 1
    /\ pre = <<>>
    /\ seen = NoStats
    /\ result = NoResult
    /\ \E cs \in {<<>>} \cup {flatMapSplit(t) : t \in OverlapTextLists} :
          /\ chunks = cs
          /\ embeddings = embedBatch(cs)
    /\ call = [op |-> "overlap", loads |-> [p \in 1..MaxLoads |-> NoLoad],
               find |-> NoFind, chunksFrom |-> 0, embeddingsFrom |-> 0]

\* A loadCorpus that leaves the chunk list alone until its request settles.
chunksOnEntryDeferred(old, cs) == old

\* chunks = texts.flatMap(...), before the await.
chunksOnEntry(old, cs) == cs

\* loadCorpus up to its await: the chunk list is replaced, the request sent.
memLoadCorpusStart(p, texts) ==
    LET cs == flatMapSplit(texts)
    IN  /\ call.loads[p].pc = "idle"
        /\ chunks' = chunksOnEntry(chunks, cs)
        /\ call' = [call EXCEPT !.loads[p] = [pc |-> "awaiting", input |-> cs],
                                !.chunksFrom = p]
        /\ UNCHANGED <<backend, table, nextId, embeddings, result, pre, apiKey,
                       seen>>

\* loadCorpus from its await on: the embedding list is replaced by the
\* response's vectors, or by [] when the request failed.
memLoadCorpusResume(p, ok) ==
    /\ call.loads[p].pc = "awaiting"
    /\ embeddings' = IF ok THEN embedBatch(call.loads[p].input) ELSE <<>>
    /\ call' = [call EXCEPT !.loads[p].pc = "done", !.embeddingsFrom = p]
    /\ UNCHANGED <<backend, table, nextId, chunks, result, pre, apiKey, seen>>

\* findSimilar up to its await: the query is sent to the provider.
memFindSimilarStart(query, topK) ==
    /\ call.find.pc = "idle"
    /\ call' = [call EXCEPT !.find.pc = "awaiting", !.find.query = query,
                            !.find.topK = topK]
    /\ UNCHANGED <<backend, table, nextId, chunks, embeddings, result, pre,
                   apiKey, seen>>

\* findSimilar from its await on: it ranks the chunk list and the embedding
\* list as they are at that moment.
memFindSimilarResume(emb) ==
    /\ call.find.pc = "awaiting"
    /\ result' \in memFindSimilarOutcomes(chunks, embeddings, call.find.query,
                                          call.find.topK, emb)
    /\ call' = [call EXCEPT
                  !.find.pc = "done", !.find.embed = emb,
                  !.find.sawChunks = chunks,
                  !.find.sawEmbeddings = embeddings,
                  !.find.sawChunksFrom = call.chunksFrom,
                  !.find.sawEmbeddingsFrom = call.embeddingsFrom,
                  !.find.during =
                      {p \in 1..MaxLoads : call.loads[p].pc = "awaiting"}]
    /\ UNCHANGED <<backend, table, nextId, chunks, embeddings, pre, apiKey,
                   seen>>

OverlapLoadStart ==
    \E p \in 1..MaxLoads, texts \in OverlapTextLists :
        memLoadCorpusStart(p, texts)

OverlapLoadResume ==
    \E p \in 1..MaxLoads, ok \in EmbedAnswers : memLoadCorpusResume(p, ok)

OverlapFindStart ==
    \E query \in Queries, topK \in TopKs : memFindSimilarStart(query, topK)

OverlapFindResume == \E emb \in EmbedAnswers : memFindSimilarResume(emb)

OverlapNext ==
    \/ OverlapLoadStart
    \/ OverlapLoadResume
    \/ OverlapFindStart
    \/ OverlapFindResume

OverlapSpec == OverlapInit /\ [][OverlapNext]_vars

(***************************************************************************)
(* The two modules side by side: every loadCorpus call (no source, every   *)
(* embedding call succeeding, the store accepting the insert) and every    *)
(* findSimilar call is made on both, the persistent one searching by its   *)
(* fallback path.  result is the persistent module's answer, call.memory   *)
(* the in-memory module's.                                                 *)
(***************************************************************************)
\* Texts and queries whose embeddings have a magnitude.
TwinTextLists ==
    { << <<"fox">> >>, << <<"owl">> >>, << <<"cat">>, <<"dog">> >> }

TwinQueries == { <<"fox">>, <<"cat">> }

TwinInit ==
    /\ backend = "both"
    /\ apiKey = "key"
    /\ table = <<>>
    /\ nextId = 1
    /\ chunks = <<>>
    /\ embeddings = <<>>
    /\ pre = <<>>
    /\ seen = NoStats
    /\ result = NoResult
    /\ call = [op |-> "none", texts |-> <<>>, query |-> <<>>, topK |-> 0,
               memory |-> NoResult]

\* loadCorpus(texts) of rag.ts and loadCorpus(texts) of the in-memory variant.
TwinLoadCorpus ==
    \E texts \in TwinTextLists :
        LET cs == flatMapSplit(texts)
            valid == validEmbeddings(
                         embeddingResults(cs, Undefined, [i \in 1..Len(cs) |-> TRUE]))
        IN  /\ nextId + Len(cs) - 1 <= MaxId
            /\ table' = TableInsert(table, valid, nextId)
            /\ nextId' = nextId + Len(valid)
            /\ chunks' = chunksOnEntry(chunks, cs)
            /\ embeddings' = embedBatch(cs)
            /\ pre' = table
            /\ call' = [op |-> "loadCorpus", texts |-> texts, query |-> <<>>,
                        topK |-> 0, memory |-> Returned(<<>>, "none")]
            /\ result' = insertOutcome("ok")
            /\ UNCHANGED <<backend, apiKey, seen>>

\* findSimilar(query, topK) of rag.ts, answered by its fallback path, and
\* findSimilar(query, topK) of the in-memory variant.
TwinFindSimilar ==
    \E query \in TwinQueries, topK \in TopKs :
        /\ result' \in findSimilarOutcomes(table, query, topK, Undefined, TRUE,
                                            "error", "data")
        /\ \E m \in memFindSimilarOutcomes(chunks, embeddings, query, topK, TRUE) :
              call' = [op |-> "findSimilar", texts |-> <<>>, query |-> query,
                       topK |-> topK, memory |-> m]
        /\ pre' = table
        /\ UNCHANGED <<backend, table, nextId, chunks, embeddings, apiKey, seen>>

TwinNext == TwinLoadCorpus \/ TwinFindSimilar

TwinSpec == TwinInit /\ [][TwinNext]_vars

(***************************************************************************)
(* The persistent service called with a source argument that is a name or  *)
(* the empty string; every embedding call succeeds and the store answers.  *)
(***************************************************************************)
SourceArguments == {"", "a"}

CallSourceLoadCorpus ==
    /\ Idle
    /\ \E texts \in AdminTextLists, source \in SourceArguments :
          /\ nextId + Len(flatMapSplit(texts)) - 1 <= MaxAdminId
          /\ loadCorpus(texts, source,
                        [i \in 1..Len(flatMapSplit(texts)) |-> TRUE], "ok")

CallSourceClearCorpus ==
    /\ Idle
    /\ \E source \in SourceArguments : clearCorpus(source, "ok")

CallSourceFindSimilar ==
    /\ Idle
    /\ \E query \in Queries, source \in SourceArguments, rpc \in {"data", "error"} :
          findSimilar(query, MaxTopK, source, TRUE, rpc,
                      IF rpc = "error" THEN "data" ELSE "none")

CallSourceGetCorpusStats ==
    /\ Idle
    /\ \E source \in SourceArguments : getCorpusStats(source, "data")

CallSourceUpdateEmbedding ==
    /\ Idle
    /\ \E id \in 1..MaxAdminId, content \in UpdateContents,
          source \in SourceArguments :
          updateEmbedding(id, content, source, TRUE, "ok")

SourceInit == Init /\ backend = "persistent" /\ apiKey = "key"

SourceNext ==
    \/ CallSourceLoadCorpus
    \/ CallSourceClearCorpus
    \/ CallSourceFindSimilar
    \/ CallSourceGetCorpusStats
    \/ CallSourceUpdateEmbedding
    \/ Return

SourceSpec == SourceInit /\ [][SourceNext]_vars

(***************************************************************************)
(* Claims.                                                                 *)
(***************************************************************************)
\* The chunks of the last loadCorpus call and the positions of those whose
\* embedding succeeded, in chunk order.
CallChunks == flatMapSplit(call.texts)

RECURSIVE Survivors(_, _)
Survivors(ok, i) ==
    IF i > Len(ok) THEN <<>>
    ELSE (IF ok[i] THEN <<i>> ELSE <<>>) \o Survivors(ok, i + 1)

\* The rows the last call appended to the table it found.
Added == SubSeq(table, Len(pre) + 1, Len(table))

PersistentLoad == backend = "persistent" /\ call.op = "loadCorpus"

\* C1: in the persistent service a loadCorpus call that returns appends exactly
\* one row per chunk whose embedding succeeded, in chunk order, holding that
\* chunk's content and the embedding returned for it, and leaves the older rows
\* alone; a call that fails leaves the table as it was; hence no row is ever
\* without the embedding of its content.
C1_RecordIffEmbeddedAndInserted ==
    /\ PersistentLoad =>
          LET surv == Survivors(call.embed, 1)
          IN  IF result.status = "returned"
              THEN /\ Len(table) = Len(pre) + Len(surv)
                   /\ SubSeq(table, 1, Len(pre)) = pre
                   /\ \A j \in 1..Len(surv) :
                         /\ Added[j].content = CallChunks[surv[j]]
                         /\ Added[j].embedding = embedContent(CallChunks[surv[j]])
              ELSE table = pre
    /\ \A i \in 1..Len(table) :
          table[i].embedding = embedContent(table[i].content)

\* A load into a non-empty table in which the first chunk failed and the second
\* survived.
C1_Witness ==
    /\ PersistentLoad
    /\ result.status = "returned"
    /\ Len(pre) > 0
    /\ call.embed = <<FALSE, TRUE>>
    /\ Len(table) = Len(pre) + 1

\* Some chunk of the last loadCorpus call got its embedding.
SomeChunkSurvived ==
    IF backend = "persistent" THEN \E i \in 1..Len(call.embed) : call.embed[i]
    ELSE call.embed[1] /\ CallChunks # <<>>

\* The surviving chunks of the last loadCorpus call are what the store holds of it.
SurvivorsStored ==
    IF backend = "persistent"
    THEN LET surv == Survivors(call.embed, 1)
         IN  /\ Len(Added) = Len(surv)
             /\ \A j \in 1..Len(surv) : Added[j].content = CallChunks[surv[j]]
    ELSE /\ chunks = CallChunks
         /\ embeddings = [i \in 1..Len(chunks) |-> embedContent(chunks[i])]

\* C2 as stated: loadCorpus fails only if no chunk survived embedding, and it
\* succeeds with the survivors stored whenever one did.
C2_FailsOnlyIfNoneSurvive ==
    call.op = "loadCorpus" =>
        /\ result.status = "threw" => ~SomeChunkSurvived
        /\ SomeChunkSurvived => (result.status = "returned" /\ SurvivorsStored)

\* C2 amended: loadCorpus fails only if no chunk survived embedding or the
\* store's insert failed, and it succeeds with the survivors stored whenever a
\* chunk survived and the insert succeeded.
C2_FailsOnlyIfNoneSurviveOrInsertFails ==
    call.op = "loadCorpus" =>
        /\ result.status = "threw" =>
              (~SomeChunkSurvived \/ call.insert \in {"error", "throws"})
        /\ (SomeChunkSurvived /\ call.insert \notin {"error", "throws"}) =>
              (result.status = "returned" /\ SurvivorsStored)

\* A load that succeeds with partial data: one chunk of three failed.
C2_Witness ==
    /\ PersistentLoad
    /\ result.status = "returned"
    /\ Len(call.embed) = 3
    /\ ~call.embed[2]
    /\ Len(Added) = 2

\* C3: findSimilar always returns (it raises nothing), whatever the embedding
\* call, the match_documents call and the fallback's select answer, and it
\* returns [] when the query embedding failed or when the indexed query and the
\* fallback's select both failed.
C3_FindSimilarNeverRaises ==
    call.op = "findSimilar" =>
        /\ result.status = "returned"
        /\ ~call.embed[1] => result.value = <<>>
        /\ (call.rpc \in {"error", "throws"}
              /\ call.fetch \in {"error", "throws"}) => result.value = <<>>

\* The indexed query answered an error and the fallback's select threw, over a
\* table that holds a row the search could have returned.
C3_Witness ==
    /\ call.op = "findSimilar"
    /\ call.rpc = "error"
    /\ call.fetch = "throws"
    /\ call.topK > 0
    /\ \E i \in 1..Len(table) : Matches(table[i], sourceFilter(call.source))

(***************************************************************************)
(* Claims about the ranking.                                               *)
(***************************************************************************)
PersistentFind == backend = "persistent" /\ call.op = "findSimilar"

\* The rows of the table the last call's source argument selects.
MatchingRows ==
    SelectSeq(table, LAMBDA r : ~Truthy(call.source) \/ r.source = call.source)

\* The candidates of the last findSimilar call with their cosine scores, in
\* insertion order: the matching rows, or the in-memory chunks.
Candidates ==
    IF backend = "persistent"
    THEN similarities(MatchingRows, embedContent(call.query))
    ELSE memScored(chunks, embeddings, embedContent(call.query))

Min(a, b) == IF a < b THEN a ELSE b

\* The ways to read v as a selection of distinct candidates: v[i] is cand[f[i]].
Selections(v, cand) ==
    {f \in [1..Len(v) -> 1..Len(cand)] :
        /\ \A i, j \in 1..Len(v) : i # j => f[i] # f[j]
        /\ \A i \in 1..Len(v) :
              v[i].chunk = cand[f[i]].chunk /\ v[i].score = cand[f[i]].score}

SameScore(x, y) == ~IsNaN(x) /\ ~IsNaN(y) /\ x = y

\* The brute-force cosine ranking of the matching rows: highest score first,
\* equal scores in insertion order, cut after topK.
BruteForceRanking == Slice(StableSort(Candidates), call.topK)

\* C4 as stated: every error of the indexed path, an {error} answer of the
\* match_documents call as well as an exception thrown by it, makes findSimilar
\* return the brute-force ranking of the matching rows (the fallback's own select
\* not failing).
C4_IndexedErrorFallsBack ==
    (PersistentFind /\ call.rpc \in {"error", "throws"}
        /\ call.fetch \notin {"error", "throws"})
    => result.value = BruteForceRanking

\* C5 as stated: findSimilar returns at most topK results and each score is at
\* least the next one, on the indexed path, on the fallback path and in the
\* in-memory variant.
C5_AtMostTopKDescending ==
    call.op = "findSimilar" =>
        /\ Len(result.value) <= call.topK
        /\ \A i \in 1..(Len(result.value) - 1) :
              AtLeast(result.value[i].score, result.value[i + 1].score)

C7_TiesInInsertionOrder ==
    (call.op = "findSimilar" /\ result.path \in {"fallback", "memory"}
        /\ call.fetch \in {"data", "none"})
    => \E f \in Selections(result.value, Candidates) :
          /\ \A i, j \in 1..Len(result.value) :
                (i < j /\ SameScore(result.value[i].score, result.value[j].score))
                => f[i] < f[j]
          /\ \A i \in 1..Len(result.value), p \in 1..Len(Candidates) :
                ((\A j \in 1..Len(result.value) : f[j] # p)
                   /\ SameScore(result.value[i].score, Candidates[p].score))
                => f[i] < p

\* C8: every result of the indexed path scores at least 0.1.
C8_IndexedScoresReachFloor ==
    (PersistentFind /\ result.path = "indexed") =>
        \A i \in 1..Len(result.value) :
            AtLeast(result.value[i].score, Div(1, 10))

\* An indexed search that returned fewer than topK results although more rows
\* matched the source: a matching row scored below 0.1 and was left out.
C8_Witness ==
    /\ PersistentFind
    /\ result.path = "indexed"
    /\ result.value # <<>>
    /\ Len(result.value) < call.topK
    /\ \E i \in 1..Len(Candidates) :
          /\ Less(Num(0), Candidates[i].score)
          /\ Less(Candidates[i].score, Div(1, 10))

\* C9: the fallback path, its select having answered, returns min(topK, n)
\* results for n matching rows, each a distinct matching row with its cosine
\* score, and no row left out scores higher than a returned one: no floor.
C9_FallbackHasNoFloor ==
    (PersistentFind /\ result.path = "fallback" /\ call.fetch = "data") =>
        /\ Len(result.value) = Min(call.topK, Len(MatchingRows))
        /\ \E f \in Selections(result.value, Candidates) :
              \A i \in 1..Len(result.value), p \in 1..Len(Candidates) :
                  (\A j \in 1..Len(result.value) : f[j] # p)
                  => ~Less(result.value[i].score, Candidates[p].score)

\* A fallback result that holds a positive score below 0.1 and a score that is
\* zero or negative.
C9_Witness ==
    /\ PersistentFind
    /\ result.path = "fallback"
    /\ call.fetch = "data"
    /\ \E i, j \in 1..Len(result.value) :
          /\ Less(Num(0), result.value[i].score)
          /\ Less(result.value[i].score, Div(1, 10))
          /\ ~Less(Num(0), result.value[j].score)

\* C10: the rows one loadCorpus call stores carry as chunk_index the 0-based
\* position of their chunk among all chunks of all texts of the call, whichever
\* chunks failed; the values are strictly increasing in stored order.
C10_ChunkIndexIsFlattenedPosition ==
    (PersistentLoad /\ result.status = "returned") =>
        LET surv == Survivors(call.embed, 1)
        IN  /\ Len(Added) = Len(surv)
            /\ \A j \in 1..Len(Added) :
                  /\ Added[j].chunk_index = surv[j] - 1
                  /\ CallChunks[Added[j].chunk_index + 1] = Added[j].content
            /\ \A j \in 1..(Len(Added) - 1) :
                  Added[j].chunk_index < Added[j + 1].chunk_index

\* A call with two texts, the first split into two chunks, whose middle chunk
\* failed: the stored rows carry 0 and 2.
C10_Witness ==
    /\ PersistentLoad
    /\ result.status = "returned"
    /\ Len(call.texts) = 2
    /\ Len(splitOnToken(call.texts[1], MaxTokens)) = 2
    /\ call.embed = <<TRUE, FALSE, TRUE>>
    /\ Added[2].chunk_index = 2

(***************************************************************************)
(* Claims about clearCorpus.                                               *)
(***************************************************************************)
PersistentClear == backend = "persistent" /\ call.op = "clearCorpus"

\* C11: a clearCorpus(s) that returns has removed exactly the rows whose source
\* is s and left the other rows as they were, in their order; a clearCorpus()
\* without a source that returns has removed every row.
C11_ClearRemovesExactlyTheSource ==
    (PersistentClear /\ result.status = "returned") =>
        IF Truthy(call.source)
        THEN /\ table = SelectSeq(pre, LAMBDA r : r.source # call.source)
             /\ \A i \in 1..Len(table) : table[i].source # call.source
        ELSE table = <<>>

\* A clearCorpus(s) over a table that held a row of s and a row of another
\* source: the one is gone, the other is still there.
C11_Witness ==
    /\ PersistentClear
    /\ result.status = "returned"
    /\ Truthy(call.source)
    /\ \E i \in 1..Len(pre) : pre[i].source = call.source
    /\ table # <<>>

\* The rows a source argument selects: those of the source, or all rows when
\* no source is given.
RowsOf(rows, source) ==
    SelectSeq(rows, LAMBDA r : ~Truthy(source) \/ r.source = source)

RECURSIVE Characters(_, _)
\* The characters of a content from word i on: letters and separating spaces.
Characters(content, i) ==
    IF i > Len(content) THEN 0
    ELSE wordLength(content[i]) + (IF i < Len(content) THEN 1 ELSE 0)
           + Characters(content, i + 1)

RECURSIVE TotalCharacters(_, _)
TotalCharacters(rows, i) ==
    IF i > Len(rows) THEN 0
    ELSE Characters(rows[i].content, 1) + TotalCharacters(rows, i + 1)

\* stats describes rows: their number, their sources each once, and an integer
\* nearest to the mean number of characters of their contents; all zero for
\* no rows.
Describes(stats, rows) ==
    /\ stats.total_chunks = Len(rows)
    /\ {stats.sources[i] : i \in 1..Len(stats.sources)}
          = {rows[i].source : i \in 1..Len(rows)}
    /\ \A i, j \in 1..Len(stats.sources) :
          i # j => stats.sources[i] # stats.sources[j]
    /\ IF rows = <<>> THEN stats.avg_chunk_length = 0
       ELSE LET d == stats.avg_chunk_length * Len(rows)
                       - TotalCharacters(rows, 1)
            IN  2 * d <= Len(rows) /\ -2 * d <= Len(rows)

\* C13 as stated: getCorpusStats(s) returns the description of the rows that
\* s selects.
C13_StatsDescribeTheMatchingRows ==
    call.op = "getCorpusStats" =>
        Describes(result.value, RowsOf(table, call.source))

\* C13 amended: getCorpusStats(s) returns the description of the rows that s
\* selects when the select answers with data, and zeroed statistics when the
\* select fails or answers without data; it never raises.
C13_StatsDescribeTheRowsSelected ==
    call.op = "getCorpusStats" =>
        /\ result.status = "returned"
        /\ call.fetch = "data" =>
              Describes(result.value, RowsOf(table, call.source))
        /\ call.fetch # "data" => result.value = zeroStats

\* Statistics of two rows of two sources whose contents have 4 and 7
\* characters: the mean 5.5 is reported as 6.
C13_Witness ==
    /\ call.op = "getCorpusStats"
    /\ call.fetch = "data"
    /\ result.value.total_chunks = 2
    /\ Len(result.value.sources) = 2
    /\ TotalCharacters(table, 1) = 11
    /\ result.value.avg_chunk_length = 6

\* The call is a getCorpusStats call that follows one with the same source
\* argument, with no loadCorpus, clearCorpus or updateEmbedding between them.
RepeatedStats ==
    call.op = "getCorpusStats" /\ seen.known /\ seen.source = call.source

UpdateReturned == call.op = "updateEmbedding" /\ result.status = "returned"

\* C15: an updateEmbedding(id, content, source?) that returns has replaced, in
\* the row with that id, the content, the embedding (by the embedding of the
\* new content) and, only when a source was given, the source; the row's id
\* and chunk_index, every other row, and the number and order of the rows are
\* as before.
C15_UpdateReplacesInPlace ==
    UpdateReturned =>
        /\ Len(table) = Len(pre)
        /\ \A i \in 1..Len(pre) :
              IF pre[i].id = call.id
              THEN /\ table[i].content = call.content
                   /\ table[i].embedding = embedContent(call.content)
                   /\ table[i].source = IF Truthy(call.source) THEN call.source
                                        ELSE pre[i].source
                   /\ table[i].id = pre[i].id
                   /\ table[i].chunk_index = pre[i].chunk_index
              ELSE table[i] = pre[i]

\* An update without a source of the second row of a call, stored under "a",
\* beside another row: content and embedding are new, source and chunk_index
\* are kept.
C15_Witness ==
    /\ UpdateReturned
    /\ call.source = Undefined
    /\ Len(pre) = 2
    /\ \E i \in 1..Len(pre) :
          /\ pre[i].id = call.id
          /\ pre[i].content # call.content
          /\ pre[i].source = "a"
          /\ table[i].source = "a"
          /\ table[i].chunk_index = 1

\* C16 as stated: an updateEmbedding call with an id that no row has ends with
\* an error and leaves the table as it was.
C16_UnknownIdIsNotFound ==
    (call.op = "updateEmbedding" /\ \A i \in 1..Len(pre) : pre[i].id # call.id)
    => (result.status = "threw" /\ table = pre)

(***************************************************************************)
(* Claims about store errors.                                              *)
(***************************************************************************)
\* C17: when the store answers the insert of loadCorpus, the delete of
\* clearCorpus or the update of updateEmbedding with an error, the call raises
\* an error instead of returning.
C17_StoreErrorIsRaised ==
    (call.op \in {"loadCorpus", "clearCorpus", "updateEmbedding"}
       /\ backend = "persistent" /\ call.insert = "error")
    => (result.status = "threw" /\ result.error = "StoreError")

\* An updateEmbedding of a stored row whose update the store answers with an
\* error.
C17_Witness ==
    /\ call.op = "updateEmbedding"
    /\ call.insert = "error"
    /\ \E i \in 1..Len(pre) : pre[i].id = call.id
    /\ result.status = "threw"

(***************************************************************************)
(* Claims about the round trip loadCorpus - findSimilar.                   *)
(***************************************************************************)
\* findSimilar(t, 1, s) is called while the record of loadCorpus([t], s) is
\* stored (in memory: is the corpus), and the embedding call and the search
\* are answered.
RoundTrip ==
    /\ call.op = "findSimilar"
    /\ call.topK = 1
    /\ call.embed = <<TRUE>>
    /\ IF backend = "persistent"
       THEN /\ Truthy(call.source)
            /\ call.rpc = "data" \/ (call.rpc = "error" /\ call.fetch = "data")
            /\ \E i \in 1..Len(table) :
                  table[i].content = call.query /\ table[i].source = call.source
       ELSE /\ chunks = <<call.query>>
            /\ Len(embeddings) = 1

\* No candidate scores higher than x.
IsMaximum(x) == \A i \in 1..Len(Candidates) : ~Less(x, Candidates[i].score)

Degenerate(a, b) == Len(a) # Len(b) \/ Magnitude(a) = 0 \/ Magnitude(b) = 0

\* C19 as stated: both cosineSimilarity functions return exactly 0, and not
\* NaN, when an argument has zero magnitude or the arguments differ in length.
C19_CosineOfDegenerateVectorsIsZero ==
    (call.op \in {"cosineSimilarity", "memCosineSimilarity"}
       /\ Degenerate(call.a, call.b))
    => result.value = Num(0)

(***************************************************************************)
(* Claims about the embedding credential.                                  *)
(***************************************************************************)
\* C20 as stated: with no embedding credential configured a loadCorpus call
\* that has chunks to embed makes no embedding call and raises a configuration error, which is not the
\* error it raises when the embedding of every chunk fails.
C20_MissingCredentialFailsAtOnce ==
    (call.op = "loadCorpus" /\ apiKey = "" /\ CallChunks # <<>>) =>
        /\ call.embed = <<>>
        /\ result.status = "threw"
        /\ result.error = "ConfigurationError"

(***************************************************************************)
(* Claims about splitOnToken.                                              *)
(***************************************************************************)
RECURSIVE Concatenation(_)
\* The words of the chunks, chunk after chunk.
Concatenation(cs) ==
    IF cs = <<>> THEN <<>> ELSE Head(cs) \o Concatenation(Tail(cs))

\* C21: for every text and every maxTokens >= 1, splitOnToken(text, maxTokens)
\* returns chunks that are non-empty and of at most maxTokens words each, and
\* whose words, chunk after chunk, are the words of the text in their order.
C21_SplitKeepsEveryWord ==
    call.op = "splitOnToken" =>
        /\ \A i \in 1..Len(result.value) :
              /\ result.value[i] # <<>>
              /\ Len(result.value[i]) <= call.maxTokens
        /\ Concatenation(result.value) = call.text

\* A text of four words under a limit of three: a full chunk and a chunk of
\* the one word that is left.
C21_Witness ==
    /\ call.op = "splitOnToken"
    /\ Len(call.text) = 4
    /\ call.maxTokens = 3
    /\ Len(result.value) = 2
    /\ Len(result.value[2]) = 1

(***************************************************************************)
(* Claims about the concurrent embedding calls of loadCorpus.              *)
(***************************************************************************)
\* The chunks of the running call whose callback returned a row, by position.
RECURSIVE SettledSurvivors(_, _)
SettledSurvivors(slots, i) ==
    IF i > Len(slots) THEN <<>>
    ELSE (IF slots[i] # Null THEN <<i>> ELSE <<>>)
           \o SettledSurvivors(slots, i + 1)

\* C22: whatever the order in which the embedContent calls of a loadCorpus
\* call settle, the rows it inserts are the surviving chunks in chunk order,
\* each with the embedding of its own chunk; and nothing is inserted and
\* nothing returned while an embedContent call of the call is pending.
C22_BatchInChunkOrderAfterAllSettled ==
    call.op = "loadCorpus" =>
        /\ call.pending # {} => (table = pre /\ result = NoResult)
        /\ (call.pc = "done" /\ result.status = "returned") =>
              LET surv == SettledSurvivors(call.slots, 1)
              IN  /\ Len(table) = Len(pre) + Len(surv)
                  /\ \A j \in 1..Len(surv) :
                        /\ Added[j].content = CallChunks[surv[j]]
                        /\ Added[j].embedding = embedContent(CallChunks[surv[j]])
                        /\ Added[j].chunk_index = surv[j] - 1

\* Three chunks whose embedContent calls settled last chunk first, the middle
\* one failing: the first and the last chunk are stored, in chunk order.
C22_Witness ==
    /\ call.op = "loadCorpus"
    /\ call.pc = "done"
    /\ result.status = "returned"
    /\ call.order = <<3, 2, 1>>
    /\ call.slots[2] = Null
    /\ Len(Added) = 2
    /\ Added[1].chunk_index = 0

(***************************************************************************)
(* Claims about overlapping calls of the in-memory variant.                *)
(***************************************************************************)
\* C23: a findSimilar that resumes while the loadCorpus call started last is
\* still waiting for its embeddings reads that call's chunk list together
\* with an embedding list that call did not assign: nothing makes it wait.
C23_FindReadsTheTornState ==
    (/\ call.find.pc = "done"
     /\ call.find.sawChunksFrom # 0
     /\ call.find.sawChunksFrom \in call.find.during)
    => /\ call.find.sawChunks = call.loads[call.find.sawChunksFrom].input
       /\ call.find.sawEmbeddingsFrom # call.find.sawChunksFrom

\* Such a findSimilar has read a chunk list and an embedding list of
\* different lengths.
C23_Witness ==
    /\ call.find.pc = "done"
    /\ call.find.sawChunksFrom # 0
    /\ call.find.sawChunksFrom \in call.find.during
    /\ Len(call.find.sawChunks) # Len(call.find.sawEmbeddings)

\* The embedding a returned chunk's score must be computed from.
ScoredWithOwnEmbedding(item, query) ==
    item.score = memCosineSimilarity(embedContent(query), embedContent(item.chunk))

\* Once no loadCorpus call is in progress, both lists are of the same call.
ListsOfOneCall ==
    (/\ \A p \in 1..MaxLoads : call.loads[p].pc # "awaiting"
     /\ call.chunksFrom # 0)
    => call.chunksFrom = call.embeddingsFrom

\* A findSimilar that resumed while a loadCorpus call was in progress returns
\* every chunk with the score of that chunk's own embedding.
ScoresOfOwnEmbedding ==
    (/\ call.find.pc = "done"
     /\ call.find.during # {}
     /\ result.status = "returned")
    => \A j \in 1..Len(result.value) :
          ScoredWithOwnEmbedding(result.value[j], call.find.query)

\* C27: once every overlapping loadCorpus call has completed, the chunk list
\* and the embedding list were assigned by the same call; and a findSimilar
\* that resumes while a loadCorpus is in progress scores every chunk it
\* returns with that chunk's own embedding.
C27_OverlapLeavesListsOfOneCall == ListsOfOneCall /\ ScoresOfOwnEmbedding

(***************************************************************************)
(* Claims about the lists of the in-memory variant.                        *)
(***************************************************************************)
\* C26: in the in-memory variant, after every loadCorpus call that ran alone,
\* its embed request having succeeded or failed, the embedding list is as
\* long as the chunk list and embeddings[i] is the embedding of chunks[i].
C26_EveryChunkHasItsEmbedding ==
    backend = "memory" =>
        /\ Len(embeddings) = Len(chunks)
        /\ \A i \in 1..Len(chunks) : embeddings[i] = embedContent(chunks[i])

(***************************************************************************)
(* Claims about the two search tiers.                                      *)
(***************************************************************************)
\* Every row the last findSimilar call's source selects scores at least the
\* indexed path's floor against its query.
AllAboveFloor ==
    \A i \in 1..Len(MatchingRows) :
        AtLeast(cosineSimilarity(embedContent(call.query),
                                 MatchingRows[i].embedding), matchThreshold)

\* What the indexed path answers to the last findSimilar call's arguments.
IndexedValue ==
    toResults(match_documents(table,
                              [filter |-> sourceFilter(call.source),
                               limit |-> call.topK],
                              embedContent(call.query), matchThreshold,
                              call.topK))

\* What the fallback path may answer to the same arguments.
FallbackValues ==
    {o.value : o \in fallbackSimilaritySearch(table, embedContent(call.query),
                                              call.topK, call.source, "data")}

ChunksOf(value) == [i \in 1..Len(value) |-> value[i].chunk]

\* C25: after the same loadCorpus calls (no source, every embedding call
\* succeeding), the same findSimilar call returns the same chunks in the same
\* order from the in-memory variant as from the persistent service's fallback
\* path; what an earlier loadCorpus call stored is found in both.
C25_BackendsAnswerAlike ==
    (backend = "both" /\ call.op = "findSimilar")
        => ChunksOf(call.memory.value) = ChunksOf(result.value)

(***************************************************************************)
(* Claims about the errors of getCorpusStats.                              *)
(***************************************************************************)
\* C28: getCorpusStats never throws; when its select does not answer with
\* data it returns total_chunks 0, no sources and avg_chunk_length 0, as for
\* an empty corpus; the table is as it was before the call.
C28_StatsNeverRaise ==
    call.op = "getCorpusStats" =>
        /\ result.status = "returned"
        /\ table = pre
        /\ call.fetch # "data" =>
              /\ result.value.total_chunks = 0
              /\ result.value.sources = <<>>
              /\ result.value.avg_chunk_length = 0

\* A getCorpusStats call over rows it would have counted, failed by the store.
C28_Witness ==
    /\ call.op = "getCorpusStats"
    /\ call.fetch = "error"
    /\ RowsOf(table, call.source) # <<>>
    /\ result.value.total_chunks = 0

(***************************************************************************)
(* Claims about the empty-string source.                                   *)
(***************************************************************************)
\* The last call was given the source "" and returned.
EmptySourceCall(op) ==
    call.op = op /\ call.source = "" /\ result.status = "returned"

\* C29: every operation takes the source "" for no source: loadCorpus stores
\* its rows under "unknown", clearCorpus empties the table, findSimilar and
\* getCorpusStats answer as over all rows, updateEmbedding rewrites the row
\* and leaves every row's source as it was.
C29_EmptySourceIsNoSource ==
    /\ EmptySourceCall("loadCorpus") =>
          \A j \in 1..Len(Added) : Added[j].source = "unknown"
    /\ EmptySourceCall("clearCorpus") => table = <<>>
    /\ EmptySourceCall("findSimilar") =>
          /\ result \in findSimilarOutcomes(table, call.query, call.topK,
                                            Undefined, TRUE, call.rpc, call.fetch)
          /\ call.rpc = "error" => Len(result.value) = Min(call.topK, Len(table))
    /\ EmptySourceCall("getCorpusStats") =>
          /\ result = getCorpusStatsOutcome(table, Undefined, call.fetch)
          /\ result.value.total_chunks = Len(table)
    /\ EmptySourceCall("updateEmbedding") =>
          /\ Len(table) = Len(pre)
          /\ \A i \in 1..Len(table) :
                /\ table[i].source = pre[i].source
                /\ table[i].id = call.id => table[i].content = call.content

\* clearCorpus("") has emptied a table that held a row stored under the
\* source "a" and a row that loadCorpus(texts, "") stored under "unknown".
C29_Witness ==
    /\ EmptySourceCall("clearCorpus")
    /\ \E i, j \in 1..Len(pre) :
          pre[i].source = "a" /\ pre[j].source = "unknown"
    /\ table = <<>>

(***************************************************************************)
(* Claims about an indexed query without rows.                             *)
(***************************************************************************)
\* The index answered the last findSimilar call with data holding no row.
IndexedEmpty ==
    /\ PersistentFind
    /\ call.rpc = "data"
    /\ match_documents(table,
                       [filter |-> sourceFilter(call.source), limit |-> call.topK],
                       embedContent(call.query), matchThreshold, call.topK) = <<>>

\* C30: a findSimilar whose indexed query succeeds with no rows returns the
\* empty sequence and does not run the fallback, whatever the fallback would
\* have returned; no call runs the fallback unless its indexed query erred.
C30_NoRowsNoFallback ==
    /\ IndexedEmpty => (result = Returned(<<>>, "indexed") /\ call.fetch = "none")
    /\ (PersistentFind /\ call.fetch # "none") => call.rpc = "error"

\* The index found no row for a query with topK > 0 although rows match the
\* source filter, all of them below the floor: the fallback would have
\* returned some of them.
C30_Witness ==
    /\ IndexedEmpty
    /\ call.topK > 0
    /\ Truthy(call.source)
    /\ MatchingRows # <<>>
    /\ {} # {v \in FallbackValues : v # <<>>}
    /\ result.value = <<>>
=============================================================================
